---- MODULE Spec2Model ----
(***************************************************************************)
(* NippyJar (crates/storage/nippy-jar/src/lib.rs): the writer of an        *)
(* immutable columnar file pair (data file + index file), its loader and   *)
(* the cursor that reads rows back.                                        *)
(*                                                                         *)
(* A byte string is a sequence of numbers in 0..255.  The data file is a   *)
(* flat byte string: the serialized configuration followed by the values   *)
(* in row-major order.  The index file holds the Elias-Fano structure of   *)
(* the offsets and the prefix-summed Elias-Fano structure of the key->row  *)
(* map.                                                                    *)
(***************************************************************************)
EXTENDS Integers, Sequences, FiniteSets, TLC

\* ------------------------------------------------------------------ bounds

NIPPY_JAR_VERSION == 1

\* The column counts a jar is constructed with.
ColumnCounts == {1, 2}
\* Largest total_rows / row_count argument.
MaxRows == 2
\* Largest capacity handed to with_cuckoo_filter.
MaxCap == 2
\* A column iterator yields at most MaxLen values before it is exhausted.
MaxLen == MaxRows

\* The byte values the column iterators yield (the empty value included).
Values == {<<>>, <<7>>}
\* The keys handed to the filter and the perfect hashing function.
Keys == {<<1>>, <<2>>, <<3>>}
\* The user headers a jar is constructed with.
Headers == {500}
\* The format versions a data file written by another engine may carry.
ForeignVersions == {2}

\* ----------------------------------------------------------------- helpers

RECURSIVE SumSeq(_)
SumSeq(s) == IF s = <<>> THEN 0 ELSE Head(s) + SumSeq(Tail(s))

RECURSIVE Concat(_)
Concat(ss) == IF ss = <<>> THEN <<>> ELSE Head(ss) \o Concat(Tail(ss))

RECURSIVE SumSet(_)
SumSet(S) == IF S = {} THEN 0 ELSE LET x == CHOOSE y \in S : TRUE IN x + SumSet(S \ {x})

\* The injective sequences over S of length at most n.
InjSeqs(S, n) ==
    UNION {{s \in [1..k -> S] : \A i, j \in 1..k : i # j => s[i] # s[j]} : k \in 0..n}

\* Position of the most significant bit (0 for 0 and 1).
RECURSIVE Msb(_)
Msb(x) == IF x <= 1 THEN 0 ELSE 1 + Msb(x \div 2)

\* ---------------------------------------------------- Elias-Fano (offsets)

\* EliasFano::default(): the empty sequence.
EFDefault == [n |-> 0, low_len |-> 0, lows |-> <<>>, highs |-> {}]

\* EliasFanoBuilder::push accepts a value only if it is not below the
\* previous one and below the universe.
EFPushOk(vals, universe) ==
    /\ \A i \in 1..Len(vals) : vals[i] < universe
    /\ \A i \in 1..(Len(vals) - 1) : vals[i] <= vals[i + 1]

\* EliasFanoBuilder::new(universe, n), push* and build: the low bits of each
\* value are kept verbatim, the high bits are the positions of the set bits
\* of a unary-coded bit vector.
EFEncode(vals, universe) ==
    LET n == Len(vals)
        l == Msb(universe \div n)
    IN  [n |-> n,
         low_len |-> l,
         lows |-> [i \in 1..n |-> vals[i] % (2 ^ l)],
         highs |-> {(vals[i] \div (2 ^ l)) + (i - 1) : i \in 1..n}]

\* select(i), i counted from 0: the position of the i-th set bit gives the
\* high part.
EFSelect(ef, i) ==
    LET p == CHOOSE q \in ef.highs : Cardinality({r \in ef.highs : r < q}) = i
    IN  (p - i) * (2 ^ ef.low_len) + ef.lows[i + 1]

EFLen(ef) == ef.n

EFDecode(ef) == [i \in 1..EFLen(ef) |-> EFSelect(ef, i - 1)]

\* ------------------------------------- prefix-summed Elias-Fano (key->row)

PrefixSums(vals) == [i \in 1..Len(vals) |-> SumSeq(SubSeq(vals, 1, i))]

\* PrefixSummedEliasFano::from_slice: the running sums, Elias-Fano encoded.
PSEncode(vals) == EFEncode(PrefixSums(vals), SumSeq(vals) + 1)

\* access(i), i counted from 0.
PSAccess(ps, i) ==
    IF i = 0 THEN EFSelect(ps, 0) ELSE EFSelect(ps, i) - EFSelect(ps, i - 1)

PSDecode(ps) == [i \in 1..EFLen(ps) |-> PSAccess(ps, i - 1)]

\* ------------------------------------------------- compression (codec)

\* self.compressor = None
NoCompressor == [kind |-> "none", use_dict |-> FALSE, ready |-> TRUE, dicts |-> <<>>]

\* compression::Zstd::new(use_dict, max_dict_size, columns): a dictionary
\* codec waits for its dictionaries, a plain one is ready at once.
ZstdNew(use_dict) ==
    [kind |-> "zstd", use_dict |-> use_dict, ready |-> ~use_dict, dicts |-> <<>>]

\* Compression::is_ready
is_ready(c) == c.ready

\* The dictionary trained for column j (counted from 1) on training
\* snapshot `seed`: one per column, different from column to column.
DictOf(seed, j) == 2 * j + seed

\* A compressed frame is never empty: a frame marker (and, in dictionary
\* mode, the dictionary's id) precedes the transformed payload.
Payload(v) == [i \in 1..Len(v) |-> (v[i] + 1) % 256]
Unpayload(b) == [i \in 1..Len(b) |-> (b[i] + 255) % 256]

\* Compression::compress_to
compress_to(v) == <<40>> \o Payload(v)

\* compression::Zstd::compress_with_dictionary
compress_with_dictionary(v, dict) == <<41, dict>> \o Payload(v)

\* Compression::decompress: the inverse of compress_to, failing on anything
\* that is not one of its frames.
decompress(b) ==
    IF Len(b) >= 1 /\ b[1] = 40
    THEN [ok |-> TRUE, v |-> Unpayload(SubSeq(b, 2, Len(b)))]
    ELSE [ok |-> FALSE, v |-> <<>>]

\* compression::Zstd::decompress_with_dictionary: the inverse of
\* compress_with_dictionary under the same dictionary.
decompress_with_dictionary(b, dict) ==
    IF Len(b) >= 2 /\ b[1] = 41 /\ b[2] = dict
    THEN [ok |-> TRUE, v |-> Unpayload(SubSeq(b, 3, Len(b)))]
    ELSE [ok |-> FALSE, v |-> <<>>]

\* ------------------------------------------------------ inclusion filter

\* self.filter = None
NoFilter == [present |-> FALSE, remaining |-> 0, elems |-> {}]

\* filter::Cuckoo::new(max_capacity)
CuckooNew(cap) == [present |-> TRUE, remaining |-> cap, elems |-> {}]

\* What the filter keeps of an element.
Fingerprint(k) == k[1] % 256

\* InclusionFilter::add on a filter with room left.
FilterAdd(f, k) ==
    [f EXCEPT !.remaining = @ - 1, !.elems = @ \cup {Fingerprint(k)}]

\* InclusionFilter::contains
FilterContains(f, k) == Fingerprint(k) \in f.elems

\* ----------------------------------------------- perfect hashing function

\* self.phf = None
NoPhf == [kind |-> "none", trained |-> FALSE, keys |-> {}]

\* phf::Fmph::new() / phf::GoFmph::new()
PhfNew(kind) == [kind |-> kind, trained |-> FALSE, keys |-> {}]

KeyNum(k) == k[1]

\* PerfectHashingFunction::set_keys
PhfSetKeys(phf, keys) ==
    [phf EXCEPT !.trained = TRUE, !.keys = {keys[i] : i \in 1..Len(keys)}]

\* A variant of PhfIndex that is a plain hash modulo the number of keys:
\* in range, and not injective.
PhfIndexModulo(phf, k) == KeyNum(k) % Cardinality(phf.keys)

\* PerfectHashingFunction::get_index on a trained function and a trained
\* key: a bijection of the trained keys onto 0..n-1, fixed by the key set
\* and the algorithm.
PhfIndex(phf, k) ==
    LET n == Cardinality(phf.keys)
        below == Cardinality({q \in phf.keys : KeyNum(q) < KeyNum(k)})
    IN  IF phf.kind = "fmph" THEN (n - 1) - below ELSE (below + 1) % n

\* -------------------------------------------- configuration (de)serializer

BoolNum(b) == IF b THEN 1 ELSE 0

KeyMask(S) == SumSet({2 ^ KeyNum(k) : k \in S})
KeyUnmask(m) == {k \in Keys : (m \div (2 ^ KeyNum(k))) % 2 = 1}
FpMask(S) == SumSet({2 ^ f : f \in S})
FpUnmask(m) == {f \in {Fingerprint(k) : k \in Keys} : (m \div (2 ^ f)) % 2 = 1}

SerCompressor(c) ==
    IF c.kind = "none" THEN <<0>>
    ELSE <<1, BoolNum(c.use_dict), BoolNum(c.ready), Len(c.dicts)>> \o c.dicts

SerFilter(f) ==
    IF ~f.present THEN <<0>> ELSE <<1, f.remaining, FpMask(f.elems)>>

SerPhf(p) ==
    IF p.kind = "none" THEN <<0>>
    ELSE <<(IF p.kind = "fmph" THEN 1 ELSE 2), BoolNum(p.trained), KeyMask(p.keys)>>

\* bincode::serialize_into(handle, &self): the fields in declaration order;
\* offsets_index, offsets and path are #[serde(skip)].
Serialize(jar) ==
    <<jar.version, jar.user_header, jar.columns>>
        \o SerCompressor(jar.compressor) \o SerFilter(jar.filter) \o SerPhf(jar.phf)

\* bincode::deserialize_from: reads the fields back in order from the head
\* of the data file and stops where the configuration ends; the skipped
\* fields take their defaults.
Deserialize(b) ==
    LET pc0 == 4
        hasC == b[pc0] = 1
        nd == IF hasC THEN b[pc0 + 3] ELSE 0
        comp == IF hasC
                THEN [kind |-> "zstd", use_dict |-> b[pc0 + 1] = 1,
                      ready |-> b[pc0 + 2] = 1,
                      dicts |-> SubSeq(b, pc0 + 4, pc0 + 3 + nd)]
                ELSE NoCompressor
        pf == IF hasC THEN pc0 + 4 + nd ELSE pc0 + 1
        hasF == b[pf] = 1
        filt == IF hasF
                THEN [present |-> TRUE, remaining |-> b[pf + 1],
                      elems |-> FpUnmask(b[pf + 2])]
                ELSE NoFilter
        pp == IF hasF THEN pf + 3 ELSE pf + 1
        hasP == b[pp] # 0
        phf == IF hasP
               THEN [kind |-> (IF b[pp] = 1 THEN "fmph" ELSE "gofmph"),
                     trained |-> b[pp + 1] = 1, keys |-> KeyUnmask(b[pp + 2])]
               ELSE NoPhf
    IN  [version |-> b[1], user_header |-> b[2], columns |-> b[3],
         compressor |-> comp, filter |-> filt, phf |-> phf,
         offsets_index |-> EFDefault, offsets |-> EFDefault, path |-> 0]

\* ------------------------------------------------------------------ state

VARIABLES
    jar,        \* the writer's NippyJar
    dataFile,   \* the file at `path`: [exists, bytes]
    indexFile,  \* the file at `path`.idx: [exists, offsets, offsets_index]
    pc,         \* "idle", "freeze" (inside freeze's write loop) or "aborted"
    fz,         \* freeze's arguments and locals, kept after it returns
    loaded,     \* the jar returned by load: [exists, jar]
    cursor,     \* the NippyJarCursor over the loaded jar: [row]
    result,     \* what the last call returned
    idx,        \* the keys of the last prepare_index, while jar.phf and
                \* jar.offsets_index are the ones it left
    frozen,     \* the file pair is what the last freeze wrote, and it succeeded
    added       \* the adds the filter accepted: [keys, n], and the capacity
                \* it was created with: [cap]

vars == <<jar, dataFile, indexFile, pc, fz, loaded, cursor, result, idx, frozen,
          added>>

\* The path a jar is created with and loaded from.
JarPath == 1

Res(op, arg, kind, a, b, row) ==
    [op |-> op, arg |-> arg, kind |-> kind, a |-> a, b |-> b, row |-> row]

NoFile == [exists |-> FALSE, bytes |-> <<>>]
NoIndex == [exists |-> FALSE, offsets |-> EFDefault, offsets_index |-> EFDefault]
NoFreeze ==
    [total_rows |-> 0, row_number |-> 0, column_number |-> 0, offsets |-> <<>>,
     pulled |-> <<>>, written |-> <<>>, head |-> 0, keyed |-> FALSE, keys |-> <<>>]

\* No add was made on a filter of capacity `cap`.
NoAdds(cap) == [keys |-> {}, n |-> 0, cap |-> cap]

\* NippyJar::new(columns, path, user_header)
New(columns, user_header) ==
    [version |-> NIPPY_JAR_VERSION, user_header |-> user_header, columns |-> columns,
     compressor |-> NoCompressor, filter |-> NoFilter, phf |-> NoPhf,
     offsets_index |-> EFDefault, offsets |-> EFDefault, path |-> JarPath]

NoJar == [exists |-> FALSE, jar |-> New(0, 0)]

Init ==
    /\ \E c \in ColumnCounts, h \in Headers : jar = New(c, h)
    /\ dataFile = NoFile
    /\ indexFile = NoIndex
    /\ pc = "idle"
    /\ fz = NoFreeze
    /\ loaded = NoJar
    /\ cursor = [row |-> 0]
    /\ result = Res("new", 0, "Ok", 0, 0, <<>>)
    /\ idx = [valid |-> FALSE, keys |-> <<>>]
    /\ frozen = FALSE
    /\ added = NoAdds(0)

\* The with_* toggles are applied while the jar is being built, before any
\* other call is made on it.
Configuring ==
    /\ pc = "idle"
    /\ result.op = "new"

\* The prepare_* calls and the filter's and the function's own methods are
\* made before the writer first creates the data file.
Preparing ==
    /\ pc = "idle"
    /\ ~dataFile.exists

\* freeze is called until it succeeds: the writer is done with its jar once
\* both files exist.
Freezing ==
    /\ pc = "idle"
    /\ ~indexFile.exists

\* ------------------------------------------------------------ the builders
\* (they take the jar by value and return it: there is no Result to record)

\* NippyJar::with_zstd
with_zstd(use_dict) ==
    /\ Configuring
    /\ jar' = [jar EXCEPT !.compressor = ZstdNew(use_dict)]
    /\ UNCHANGED <<dataFile, indexFile, pc, fz, loaded, cursor, result, idx, frozen, added>>

\* NippyJar::with_cuckoo_filter
with_cuckoo_filter(max_capacity) ==
    /\ Configuring
    /\ jar' = [jar EXCEPT !.filter = CuckooNew(max_capacity)]
    /\ idx' = [valid |-> FALSE, keys |-> <<>>]
    /\ added' = NoAdds(max_capacity)
    /\ UNCHANGED <<dataFile, indexFile, pc, fz, loaded, cursor, result, frozen>>

\* NippyJar::with_mphf
with_mphf ==
    /\ Configuring
    /\ jar' = [jar EXCEPT !.phf = PhfNew("fmph")]
    /\ idx' = [valid |-> FALSE, keys |-> <<>>]
    /\ UNCHANGED <<dataFile, indexFile, pc, fz, loaded, cursor, result, frozen, added>>

\* NippyJar::with_gomphf
with_gomphf ==
    /\ Configuring
    /\ jar' = [jar EXCEPT !.phf = PhfNew("gofmph")]
    /\ idx' = [valid |-> FALSE, keys |-> <<>>]
    /\ UNCHANGED <<dataFile, indexFile, pc, fz, loaded, cursor, result, frozen, added>>

\* ------------------------------------------------------ prepare_compression

\* Compression::prepare_compression of the zstd codec: `got` training
\* columns, whose content is snapshot `seed`.
ZstdPrepare(c, columns, got, seed) ==
    IF ~c.use_dict THEN [kind |-> "Ok", c |-> c]
    ELSE IF got # columns THEN [kind |-> "ColumnLenMismatch", c |-> c]
    ELSE [kind |-> "Ok",
          c |-> [c EXCEPT !.ready = TRUE,
                          !.dicts = [j \in 1..columns |-> DictOf(seed, j)]]]

\* A variant of prepare_compression that drops the compressor's error.
prepare_compression_unchecked(got, seed) ==
    /\ Preparing
    /\ LET r == IF jar.compressor.kind = "none"
                THEN [kind |-> "Ok", c |-> jar.compressor]
                ELSE ZstdPrepare(jar.compressor, jar.columns, got, seed)
       IN  /\ jar' = [jar EXCEPT !.compressor = r.c]
           /\ result' = Res("prepare_compression", got, "Ok", 0, 0, <<>>)
    /\ UNCHANGED <<dataFile, indexFile, pc, fz, loaded, cursor, idx, frozen, added>>

\* NippyJar::prepare_compression
prepare_compression(got, seed) ==
    /\ Preparing
    /\ LET r == IF jar.compressor.kind = "none"
                THEN [kind |-> "Ok", c |-> jar.compressor]
                ELSE ZstdPrepare(jar.compressor, jar.columns, got, seed)
       IN  /\ jar' = [jar EXCEPT !.compressor = r.c]
           /\ result' = IF r.kind = "Ok"
                        THEN Res("prepare_compression", got, "Ok", 0, 0, <<>>)
                        ELSE Res("prepare_compression", got, r.kind, jar.columns, got, <<>>)
    /\ UNCHANGED <<dataFile, indexFile, pc, fz, loaded, cursor, idx, frozen, added>>

\* ------------------------------------------------------------ prepare_index

\* A variant of RecordRow that stores nothing.
RecordNothing(offsets_index, index, row_num) == offsets_index

\* A variant of RecordRow that counts rows from 1.
RecordRowOneBased(offsets_index, index, row_num) ==
    [offsets_index EXCEPT ![index + 1] = row_num + 1]

\* std::mem::replace(&mut offsets_index[index], row_num)
RecordRow(offsets_index, index, row_num) ==
    [offsets_index EXCEPT ![index + 1] = row_num]

\* The loop of prepare_index over the collected keys, from row `row_num` on:
\* each key goes to the filter, then its row number is stored at the key's
\* index.  Indexing past the end of offsets_index panics.
RECURSIVE IndexLoop(_, _, _, _, _)
IndexLoop(filter, phf, offsets_index, values, row_num) ==
    IF row_num >= Len(values)
    THEN [kind |-> "Ok", filter |-> filter, offsets_index |-> offsets_index,
          adds |-> IF filter.present THEN row_num ELSE 0]
    ELSE LET v == values[row_num + 1]
         IN  IF filter.present /\ filter.remaining = 0
             THEN [kind |-> "FilterMaxCapacity", filter |-> filter,
                   offsets_index |-> offsets_index, adds |-> row_num]
             ELSE LET f2 == IF filter.present THEN FilterAdd(filter, v) ELSE filter
                  IN  IF phf.kind = "none"
                      THEN IndexLoop(f2, phf, offsets_index, values, row_num + 1)
                      ELSE IF PhfIndex(phf, v) >= Len(offsets_index)
                      THEN [kind |-> "Panic", filter |-> f2,
                            offsets_index |-> offsets_index,
                            adds |-> IF filter.present THEN row_num + 1 ELSE 0]
                      ELSE IndexLoop(f2, phf,
                                     RecordRow(offsets_index, PhfIndex(phf, v), row_num),
                                     values, row_num + 1)

\* A variant of prepare_index that acts on the keys as it pulls them: when
\* the last item of the iterator is the Err, the function has been trained
\* and the filter fed with the keys before it.
prepare_index_streaming(values, row_count, failing) ==
    /\ Preparing
    /\ LET phf2 == IF jar.phf.kind # "none" THEN PhfSetKeys(jar.phf, values) ELSE jar.phf
           zeros == [i \in 1..row_count |-> 0]
           r == IF jar.filter.present \/ jar.phf.kind # "none"
                THEN IndexLoop(jar.filter, phf2, zeros, values, 0)
                ELSE [kind |-> "Ok", filter |-> jar.filter, offsets_index |-> zeros,
                      adds |-> 0]
       IN  /\ jar' = [jar EXCEPT
                         !.phf = phf2,
                         !.filter = r.filter,
                         !.offsets_index =
                             IF r.kind = "Ok" /\ ~failing THEN PSEncode(r.offsets_index) ELSE @]
           /\ idx' = [valid |-> r.kind = "Ok" /\ ~failing /\ Len(values) = row_count,
                      keys |-> IF r.kind = "Ok" /\ ~failing /\ Len(values) = row_count
                               THEN values ELSE <<>>]
           /\ pc' = IF r.kind = "Panic" THEN "aborted" ELSE pc
           /\ added' = [added EXCEPT
                          !.keys = @ \cup {values[i] : i \in 1..r.adds},
                          !.n = @ + r.adds]
           /\ result' = Res("prepare_index", row_count,
                            IF failing /\ r.kind = "Ok" THEN "Custom" ELSE r.kind,
                            0, 0, <<>>)
    /\ UNCHANGED <<dataFile, indexFile, fz, loaded, cursor, frozen>>

\* NippyJar::prepare_index(values, row_count).  `failing`: one item of the
\* key iterator is an Err, which the collect returns before anything else
\* is done.
prepare_index(values, row_count, failing) ==
    /\ Preparing
    /\ LET phf2 == IF jar.phf.kind # "none" THEN PhfSetKeys(jar.phf, values) ELSE jar.phf
           zeros == [i \in 1..row_count |-> 0]
           r == IF jar.filter.present \/ jar.phf.kind # "none"
                THEN IndexLoop(jar.filter, phf2, zeros, values, 0)
                ELSE [kind |-> "Ok", filter |-> jar.filter, offsets_index |-> zeros,
                      adds |-> 0]
       IN  IF failing
           THEN /\ result' = Res("prepare_index", row_count, "Custom", 0, 0, <<>>)
                /\ UNCHANGED <<jar, idx, pc, added>>
           ELSE /\ jar' = [jar EXCEPT
                             !.phf = phf2,
                             !.filter = r.filter,
                             !.offsets_index =
                                 IF r.kind = "Ok" THEN PSEncode(r.offsets_index) ELSE @]
                /\ idx' = [valid |-> r.kind = "Ok" /\ Len(values) = row_count,
                           keys |-> IF r.kind = "Ok" /\ Len(values) = row_count
                                    THEN values ELSE <<>>]
                /\ pc' = IF r.kind = "Panic" THEN "aborted" ELSE pc
                /\ added' = [added EXCEPT
                               !.keys = @ \cup {values[i] : i \in 1..r.adds},
                               !.n = @ + r.adds]
                /\ result' = Res("prepare_index", row_count, r.kind, 0, 0, <<>>)
    /\ UNCHANGED <<dataFile, indexFile, fz, loaded, cursor, frozen>>

\* --------------------------------- InclusionFilter / PerfectHashingFunction

\* A variant of add that reports Ok when the filter is full.
add_swallowing(element) ==
    /\ Preparing
    /\ IF ~jar.filter.present
       THEN /\ result' = Res("add", KeyNum(element), "FilterMissing", 0, 0, <<>>)
            /\ UNCHANGED <<jar, added>>
       ELSE IF jar.filter.remaining = 0
       THEN /\ result' = Res("add", KeyNum(element), "Ok", 0, 0, <<>>)
            /\ UNCHANGED <<jar, added>>
       ELSE /\ result' = Res("add", KeyNum(element), "Ok", 0, 0, <<>>)
            /\ jar' = [jar EXCEPT !.filter = FilterAdd(jar.filter, element)]
            /\ added' = [added EXCEPT !.keys = @ \cup {element}, !.n = @ + 1]
    /\ UNCHANGED <<dataFile, indexFile, pc, fz, loaded, cursor, idx, frozen>>

\* <NippyJar as InclusionFilter>::add
add(element) ==
    /\ Preparing
    /\ IF ~jar.filter.present
       THEN /\ result' = Res("add", KeyNum(element), "FilterMissing", 0, 0, <<>>)
            /\ UNCHANGED <<jar, added>>
       ELSE IF jar.filter.remaining = 0
       THEN /\ result' = Res("add", KeyNum(element), "FilterMaxCapacity", 0, 0, <<>>)
            /\ UNCHANGED <<jar, added>>
       ELSE /\ result' = Res("add", KeyNum(element), "Ok", 0, 0, <<>>)
            /\ jar' = [jar EXCEPT !.filter = FilterAdd(jar.filter, element)]
            /\ added' = [added EXCEPT !.keys = @ \cup {element}, !.n = @ + 1]
    /\ UNCHANGED <<dataFile, indexFile, pc, fz, loaded, cursor, idx, frozen>>

\* <NippyJar as InclusionFilter>::contains
contains(element) ==
    /\ Preparing
    /\ result' = IF ~jar.filter.present
                 THEN Res("contains", KeyNum(element), "FilterMissing", 0, 0, <<>>)
                 ELSE Res("contains", KeyNum(element), "Ok",
                          BoolNum(FilterContains(jar.filter, element)), 0, <<>>)
    /\ UNCHANGED <<jar, dataFile, indexFile, pc, fz, loaded, cursor, idx, frozen, added>>

\* A variant of set_keys that reports Ok on a jar without a function.
set_keys_lenient(keys) ==
    /\ Preparing
    /\ IF jar.phf.kind = "none"
       THEN /\ result' = Res("set_keys", Len(keys), "Ok", 0, 0, <<>>)
            /\ UNCHANGED <<jar, idx>>
       ELSE /\ result' = Res("set_keys", Len(keys), "Ok", 0, 0, <<>>)
            /\ jar' = [jar EXCEPT !.phf = PhfSetKeys(jar.phf, keys)]
            /\ idx' = [valid |-> FALSE, keys |-> <<>>]
    /\ UNCHANGED <<dataFile, indexFile, pc, fz, loaded, cursor, frozen, added>>

\* <NippyJar as PerfectHashingFunction>::set_keys
set_keys(keys) ==
    /\ Preparing
    /\ IF jar.phf.kind = "none"
       THEN /\ result' = Res("set_keys", Len(keys), "PHFMissing", 0, 0, <<>>)
            /\ UNCHANGED <<jar, idx>>
       ELSE /\ result' = Res("set_keys", Len(keys), "Ok", 0, 0, <<>>)
            /\ jar' = [jar EXCEPT !.phf = PhfSetKeys(jar.phf, keys)]
            /\ idx' = [valid |-> FALSE, keys |-> <<>>]
    /\ UNCHANGED <<dataFile, indexFile, pc, fz, loaded, cursor, frozen, added>>

\* What get_index may return for `key` on function `phf`: an error before
\* the training, the key's index after it; for a key that was not trained,
\* nothing or any index.
GetIndexResults(phf, key) ==
    IF phf.kind = "none" THEN {[kind |-> "PHFMissing", a |-> 0]}
    ELSE IF ~phf.trained THEN {[kind |-> "PHFMissingKeys", a |-> 0]}
    ELSE IF key \in phf.keys THEN {[kind |-> "Some", a |-> PhfIndex(phf, key)]}
    ELSE {[kind |-> "None", a |-> 0]}
             \cup {[kind |-> "Some", a |-> i] : i \in 0..(Cardinality(phf.keys) - 1)}

\* <NippyJar as PerfectHashingFunction>::get_index
get_index(key) ==
    /\ Preparing
    /\ \E r \in GetIndexResults(jar.phf, key) :
         result' = Res("get_index", KeyNum(key), r.kind, r.a, 0, <<>>)
    /\ UNCHANGED <<jar, dataFile, indexFile, pc, fz, loaded, cursor, idx, frozen, added>>

\* ------------------------------------------------------------------ freeze

\* Variants of the definitions below that differ from the code in one
\* respect each; the properties at the end tell the code apart from them.

\* The compressor is looked at before the column count.
freeze_check_compressor_first(j, got) ==
    IF j.compressor.kind # "none" /\ ~is_ready(j.compressor) THEN "CompressorNotReady"
    ELSE IF got # j.columns THEN "ColumnLenMismatch"
    ELSE IF j.phf.kind # "none" /\ ~j.phf.trained THEN "PHFMissingKeys"
    ELSE "Ok"

\* A filter without a function, or a function without a filter, is refused.
freeze_check_paired(j, got) ==
    IF got # j.columns THEN "ColumnLenMismatch"
    ELSE IF j.compressor.kind # "none" /\ ~is_ready(j.compressor) THEN "CompressorNotReady"
    ELSE IF j.phf.kind # "none" /\ ~j.phf.trained THEN "PHFMissingKeys"
    ELSE IF j.filter.present /\ j.phf.kind = "none" THEN "PHFMissing"
    ELSE IF ~j.filter.present /\ j.phf.kind # "none" THEN "FilterMissing"
    ELSE "Ok"

\* The compressor is not looked at.
freeze_check_no_compressor(j, got) ==
    IF got # j.columns THEN "ColumnLenMismatch"
    ELSE IF j.phf.kind # "none" /\ ~j.phf.trained THEN "PHFMissingKeys"
    ELSE "Ok"

\* The function is not looked at.
freeze_check_no_phf(j, got) ==
    IF got # j.columns THEN "ColumnLenMismatch"
    ELSE IF j.compressor.kind # "none" /\ ~is_ready(j.compressor) THEN "CompressorNotReady"
    ELSE "Ok"

\* The data file is created before the checks.
CreatesDataFileFirst(kind) == TRUE

\* The offset is taken after the value is written.
OffsetAfterWrite(pos, w) == pos + Len(w)

\* The loop is left one row late.
LeavesLoopLate(row_number, total_rows) == row_number = total_rows

\* Row and column are reported the other way round.
MissingAtSwapped(row_number, column_number) == <<column_number, row_number>>

\* NippyJar::freeze_check up to the creation of the file: the first
\* precondition that fails, or "Ok".
freeze_check(j, got) ==
    IF got # j.columns THEN "ColumnLenMismatch"
    ELSE IF j.compressor.kind # "none" /\ ~is_ready(j.compressor) THEN "CompressorNotReady"
    ELSE IF j.phf.kind # "none" /\ ~j.phf.trained THEN "PHFMissingKeys"
    ELSE "Ok"

\* File::create(self.data_path()) is the last statement of freeze_check: it
\* is reached only when every check has passed.
CreatesDataFile(kind) == kind = "Ok"

\* The offset pushed for a value: file.stream_position() before the value is
\* written (`pos`), whatever bytes `w` are written for it.
OffsetOf(pos, w) == pos

\* The bytes freeze writes for `value` of column `column_number` (from 0).
WrittenFor(j, column_number, value) ==
    IF j.compressor.kind = "none" THEN value
    ELSE IF j.compressor.use_dict
    THEN compress_with_dictionary(value, j.compressor.dicts[column_number + 1])
    ELSE compress_to(value)

\* The loop's exit test after a row: row_number += 1, then leave when
\* row_number == total_rows.
LeavesLoop(row_number, total_rows) == row_number + 1 = total_rows

\* The position UnexpectedMissingValue reports: the row being written and
\* the column whose iterator is exhausted.
MissingAt(row_number, column_number) == <<row_number, column_number>>

\* What column_iter.next() may yield at row `row_number`: a value, an error,
\* or the end of the iterator (the only outcome once MaxLen values were
\* yielded).
Ok(v) == [t |-> "ok", v |-> v]
NoneItem == [t |-> "none", v |-> <<>>]
ErrItem == [t |-> "err", v |-> <<>>]
Items(row_number) ==
    IF row_number < MaxLen
    THEN {Ok(v) : v \in Values} \cup {NoneItem, ErrItem}
    ELSE {NoneItem}

\* NippyJar::freeze up to the write loop: freeze_check, freeze_config and
\* the locals of the loop.  `got` is columns.len().
freeze(got, total_rows) ==
    /\ Freezing
    /\ LET kind == freeze_check(jar, got)
       IN  IF kind # "Ok"
           THEN /\ result' = IF kind = "ColumnLenMismatch"
                             THEN Res("freeze", got, kind, jar.columns, got, <<>>)
                             ELSE Res("freeze", got, kind, 0, 0, <<>>)
                /\ dataFile' = IF CreatesDataFile(kind)
                               THEN [exists |-> TRUE, bytes |-> <<>>] ELSE dataFile
                /\ frozen' = (frozen /\ ~CreatesDataFile(kind))
                /\ UNCHANGED <<pc, fz>>
           ELSE /\ dataFile' = [exists |-> TRUE, bytes |-> Serialize(jar)]
                /\ pc' = "freeze"
                /\ fz' = [NoFreeze EXCEPT !.total_rows = total_rows,
                                          !.head = Len(Serialize(jar)),
                                          !.keyed = idx.valid,
                                          !.keys = idx.keys]
                /\ frozen' = FALSE
                /\ result' = Res("freeze", got, "Running", 0, 0, <<>>)
    /\ UNCHANGED <<jar, indexFile, loaded, cursor, idx, added>>

\* A variant of freeze_offsets that stores the offsets counted from the first
\* value rather than from the start of the file.
freeze_offsets_relative(offsets) ==
    LET rel == [i \in 1..Len(offsets) |-> offsets[i] - offsets[1]]
        universe == rel[Len(rel)] + 1
    IN  IF ~EFPushOk(rel, universe)
        THEN /\ result' = Res("freeze", jar.columns, "Internal", 0, 0, <<>>)
             /\ UNCHANGED <<jar, indexFile, frozen>>
        ELSE /\ jar' = [jar EXCEPT !.offsets = EFEncode(rel, universe)]
             /\ indexFile' = [exists |-> TRUE,
                              offsets |-> EFEncode(rel, universe),
                              offsets_index |-> jar.offsets_index]
             /\ frozen' = TRUE
             /\ result' = Res("freeze", jar.columns, "Ok", 0, 0, <<>>)

\* NippyJar::freeze_offsets: the Elias-Fano structure of the offsets
\* replaces self.offsets, and the index file is created and written.
freeze_offsets(offsets) ==
    LET universe == offsets[Len(offsets)] + 1
    IN  IF ~EFPushOk(offsets, universe)
        THEN /\ result' = Res("freeze", jar.columns, "Internal", 0, 0, <<>>)
             /\ UNCHANGED <<jar, indexFile, frozen>>
        ELSE /\ jar' = [jar EXCEPT !.offsets = EFEncode(offsets, universe)]
             /\ indexFile' = [exists |-> TRUE,
                              offsets |-> EFEncode(offsets, universe),
                              offsets_index |-> jar.offsets_index]
             /\ frozen' = TRUE
             /\ result' = Res("freeze", jar.columns, "Ok", 0, 0, <<>>)

\* A variant of freeze_step that writes the index file with the offsets
\* pushed so far when the loop fails, before it returns the error.
freeze_step_flushing(item) ==
    /\ pc = "freeze"
    /\ LET pos == Len(dataFile.bytes)
           w == WrittenFor(jar, fz.column_number, item.v)
           offs == Append(fz.offsets, OffsetOf(pos, IF item.t = "ok" THEN w ELSE <<>>))
           lastCol == fz.column_number + 1 = jar.columns
           partial == EFEncode(offs, offs[Len(offs)] + 1)
       IN  IF item.t # "ok"
           THEN /\ result' = IF item.t = "none"
                             THEN Res("freeze", jar.columns, "UnexpectedMissingValue",
                                      MissingAt(fz.row_number, fz.column_number)[1],
                                      MissingAt(fz.row_number, fz.column_number)[2], <<>>)
                             ELSE Res("freeze", jar.columns, "Custom", 0, 0, <<>>)
                /\ fz' = [fz EXCEPT !.offsets = offs, !.pulled = Append(@, item)]
                /\ pc' = "idle"
                /\ jar' = [jar EXCEPT !.offsets = partial]
                /\ indexFile' = [exists |-> TRUE, offsets |-> partial,
                                 offsets_index |-> jar.offsets_index]
                /\ UNCHANGED <<dataFile, frozen>>
           ELSE /\ dataFile' = [dataFile EXCEPT !.bytes = @ \o w]
                /\ fz' = [fz EXCEPT
                            !.offsets = offs,
                            !.pulled = Append(@, item),
                            !.written = Append(@, w),
                            !.column_number = IF lastCol THEN 0 ELSE @ + 1,
                            !.row_number = IF lastCol THEN @ + 1 ELSE @]
                /\ IF lastCol /\ LeavesLoop(fz.row_number, fz.total_rows)
                   THEN /\ pc' = "idle"
                        /\ freeze_offsets(offs)
                   ELSE /\ UNCHANGED <<pc, jar, indexFile, frozen, result>>
    /\ UNCHANGED <<loaded, cursor, idx, added>>

\* A variant of freeze_step that pulls again from an exhausted iterator
\* instead of returning UnexpectedMissingValue.
freeze_step_retrying(item) ==
    /\ pc = "freeze"
    /\ LET pos == Len(dataFile.bytes)
           w == WrittenFor(jar, fz.column_number, item.v)
           offs == Append(fz.offsets, OffsetOf(pos, IF item.t = "ok" THEN w ELSE <<>>))
           lastCol == fz.column_number + 1 = jar.columns
       IN  IF item.t = "none"
           THEN UNCHANGED <<result, fz, pc, jar, dataFile, indexFile, frozen>>
           ELSE IF item.t = "err"
           THEN /\ result' = Res("freeze", jar.columns, "Custom", 0, 0, <<>>)
                /\ fz' = [fz EXCEPT !.offsets = offs, !.pulled = Append(@, item)]
                /\ pc' = "idle"
                /\ UNCHANGED <<jar, dataFile, indexFile, frozen>>
           ELSE /\ dataFile' = [dataFile EXCEPT !.bytes = @ \o w]
                /\ fz' = [fz EXCEPT
                            !.offsets = offs,
                            !.pulled = Append(@, item),
                            !.written = Append(@, w),
                            !.column_number = IF lastCol THEN 0 ELSE @ + 1,
                            !.row_number = IF lastCol THEN @ + 1 ELSE @]
                /\ IF lastCol /\ LeavesLoop(fz.row_number, fz.total_rows)
                   THEN /\ pc' = "idle"
                        /\ freeze_offsets(offs)
                   ELSE /\ UNCHANGED <<pc, jar, indexFile, frozen, result>>
    /\ UNCHANGED <<loaded, cursor, idx, added>>

\* One turn of the inner loop of freeze: the offset is pushed, the column's
\* iterator is pulled and the value written; after the last column of a row
\* the row counter advances and, when it equals total_rows, the loop is left
\* and freeze_offsets runs.
freeze_step(item) ==
    /\ pc = "freeze"
    /\ LET pos == Len(dataFile.bytes)
           w == WrittenFor(jar, fz.column_number, item.v)
           offs == Append(fz.offsets, OffsetOf(pos, IF item.t = "ok" THEN w ELSE <<>>))
           lastCol == fz.column_number + 1 = jar.columns
       IN  IF item.t = "none"
           THEN /\ result' = Res("freeze", jar.columns, "UnexpectedMissingValue",
                                 MissingAt(fz.row_number, fz.column_number)[1],
                                 MissingAt(fz.row_number, fz.column_number)[2], <<>>)
                /\ fz' = [fz EXCEPT !.offsets = offs, !.pulled = Append(@, item)]
                /\ pc' = "idle"
                /\ UNCHANGED <<jar, dataFile, indexFile, frozen>>
           ELSE IF item.t = "err"
           THEN /\ result' = Res("freeze", jar.columns, "Custom", 0, 0, <<>>)
                /\ fz' = [fz EXCEPT !.offsets = offs, !.pulled = Append(@, item)]
                /\ pc' = "idle"
                /\ UNCHANGED <<jar, dataFile, indexFile, frozen>>
           ELSE /\ dataFile' = [dataFile EXCEPT !.bytes = @ \o w]
                /\ fz' = [fz EXCEPT
                            !.offsets = offs,
                            !.pulled = Append(@, item),
                            !.written = Append(@, w),
                            !.column_number = IF lastCol THEN 0 ELSE @ + 1,
                            !.row_number = IF lastCol THEN @ + 1 ELSE @]
                /\ IF lastCol /\ LeavesLoop(fz.row_number, fz.total_rows)
                   THEN /\ pc' = "idle"
                        /\ freeze_offsets(offs)
                   ELSE /\ UNCHANGED <<pc, jar, indexFile, frozen, result>>
    /\ UNCHANGED <<loaded, cursor, idx, added>>

\* -------------------------------------------------------------------- load

\* A variant of LoadedJar that does not set the path.
LoadedJarNoPath(data, index) ==
    [Deserialize(data.bytes) EXCEPT
        !.offsets = index.offsets,
        !.offsets_index = index.offsets_index]

\* A variant of LoadedJar whose filter comes back empty, as if the filter's
\* table were skipped by the serializer.
LoadedJarEmptyFilter(data, index) ==
    [Deserialize(data.bytes) EXCEPT
        !.path = JarPath,
        !.filter = IF @.present THEN CuckooNew(@.remaining) ELSE @,
        !.offsets = index.offsets,
        !.offsets_index = index.offsets_index]

\* A variant of LoadedJar whose function comes back as with_mphf or
\* with_gomphf made it, without what set_keys built.
LoadedJarUntrainedPhf(data, index) ==
    [Deserialize(data.bytes) EXCEPT
        !.path = JarPath,
        !.phf = IF @.kind = "none" THEN @ ELSE PhfNew(@.kind),
        !.offsets = index.offsets,
        !.offsets_index = index.offsets_index]

\* The jar NippyJar::load builds from the two files: the configuration read
\* from the head of the data file, the path it was given, and the two
\* structures of the index file.
LoadedJar(data, index) ==
    [Deserialize(data.bytes) EXCEPT
        !.path = JarPath,
        !.offsets = index.offsets,
        !.offsets_index = index.offsets_index]

\* NippyJar::load(path), and NippyJarCursor::new on the jar it returns.
load ==
    /\ pc = "idle"
    /\ ~loaded.exists
    /\ IF dataFile.exists /\ indexFile.exists
       THEN /\ loaded' = [exists |-> TRUE, jar |-> LoadedJar(dataFile, indexFile)]
            /\ result' = Res("load", 0, "Ok", 0, 0, <<>>)
       ELSE /\ loaded' = loaded
            /\ result' = Res("load", 0, "Io", 0, 0, <<>>)
    /\ cursor' = [row |-> 0]
    /\ UNCHANGED <<jar, dataFile, indexFile, pc, fz, idx, frozen, added>>

\* The loaded jar and its cursor are dropped.
drop ==
    /\ pc = "idle"
    /\ loaded.exists
    /\ loaded' = NoJar
    /\ cursor' = [row |-> 0]
    /\ result' = Res("drop", 0, "Ok", 0, 0, <<>>)
    /\ UNCHANGED <<jar, dataFile, indexFile, pc, fz, idx, frozen, added>>

\* The data file at `path` is one written by an engine of another format
\* version: its configuration carries version `v`.
foreign_file(v) ==
    /\ pc = "idle"
    /\ ~loaded.exists
    /\ dataFile.exists
    /\ dataFile.bytes # <<>>
    /\ dataFile.bytes[1] = NIPPY_JAR_VERSION
    /\ dataFile' = [dataFile EXCEPT !.bytes[1] = v]
    /\ frozen' = FALSE
    /\ result' = Res("foreign_file", v, "Ok", 0, 0, <<>>)
    /\ UNCHANGED <<jar, indexFile, pc, fz, loaded, cursor, idx, added>>

\* <NippyJar as InclusionFilter>::contains on the jar load returned.
loaded_contains(element) ==
    /\ pc = "idle"
    /\ loaded.exists
    /\ result' = IF ~loaded.jar.filter.present
                 THEN Res("loaded_contains", KeyNum(element), "FilterMissing", 0, 0, <<>>)
                 ELSE Res("loaded_contains", KeyNum(element), "Ok",
                          BoolNum(FilterContains(loaded.jar.filter, element)), 0, <<>>)
    /\ UNCHANGED <<jar, dataFile, indexFile, pc, fz, loaded, cursor, idx, frozen, added>>

\* <NippyJar as PerfectHashingFunction>::get_index on the jar load returned.
loaded_get_index(key) ==
    /\ pc = "idle"
    /\ loaded.exists
    /\ \E r \in GetIndexResults(loaded.jar.phf, key) :
         result' = Res("loaded_get_index", KeyNum(key), r.kind, r.a, 0, <<>>)
    /\ UNCHANGED <<jar, dataFile, indexFile, pc, fz, loaded, cursor, idx, frozen, added>>

\* ------------------------------------------------------------------ cursor

\* The value of column `column` (from 0) of row `row`: the bytes between its
\* offset and the next one (the end of the file for the last value), through
\* the codec.
ReadValue(j, bytes, row, column, total_cols) ==
    LET pos == row * total_cols + column
        start == EFSelect(j.offsets, pos)
        end == IF pos + 1 = EFLen(j.offsets)
               THEN Len(bytes) ELSE EFSelect(j.offsets, pos + 1)
        slice == SubSeq(bytes, start + 1, end)
    IN  IF j.compressor.kind = "none" THEN [ok |-> TRUE, v |-> slice]
        ELSE IF j.compressor.use_dict
        THEN decompress_with_dictionary(slice, j.compressor.dicts[column + 1])
        ELSE decompress(slice)

\* A variant of Project that keeps every column.
ProjectAll(vals, mask, column) == vals

\* Bit `column` (from 0) of `mask`.
MaskBit(mask, column) == (mask \div (2 ^ column)) % 2 = 1

\* The values of the columns from `column` on whose bit is set, in column
\* order.
RECURSIVE Project(_, _, _)
Project(vals, mask, column) ==
    IF column >= Len(vals) THEN <<>>
    ELSE (IF MaskBit(mask, column) THEN <<vals[column + 1]>> ELSE <<>>)
             \o Project(vals, mask, column + 1)

FullMask(total_cols) == (2 ^ total_cols) - 1

\* NippyJarCursor::row_by_number(n, mask, total_cols)
RowByNumber(j, bytes, n, mask, total_cols) ==
    IF (n + 1) * total_cols > EFLen(j.offsets)
    THEN [kind |-> "OutOfRange", row |-> <<>>]
    ELSE LET vals == [c \in 1..total_cols |-> ReadValue(j, bytes, n, c - 1, total_cols)]
         IN  IF \E c \in 1..total_cols : ~vals[c].ok
             THEN [kind |-> "Decompress", row |-> <<>>]
             ELSE [kind |-> "Some",
                   row |-> Project([c \in 1..total_cols |-> vals[c].v], mask, 0)]

\* NippyJarCursor::row_by_key(k, mask, total_cols) once get_index has
\* answered `ix`: the filter first, then the key->row map, then
\* row_by_number.
RowByKey(j, bytes, k, ix, mask, total_cols) ==
    IF j.filter.present /\ ~FilterContains(j.filter, k)
    THEN [kind |-> "None", row |-> <<>>, n |-> 0]
    ELSE IF ix.kind # "Some" THEN [kind |-> ix.kind, row |-> <<>>, n |-> 0]
    ELSE IF ix.a >= EFLen(j.offsets_index)
    THEN [kind |-> "OutOfRange", row |-> <<>>, n |-> 0]
    ELSE LET n == PSAccess(j.offsets_index, ix.a)
             r == RowByNumber(j, bytes, n, mask, total_cols)
         IN  [kind |-> r.kind, row |-> r.row, n |-> n]

\* row_by_number on the loaded jar: the cursor is positioned on row n.
row_by_number(n, mask) ==
    /\ pc = "idle"
    /\ loaded.exists
    /\ LET r == RowByNumber(loaded.jar, dataFile.bytes, n, mask, loaded.jar.columns)
       IN  /\ result' = Res("row_by_number", n, r.kind, n, mask, r.row)
           /\ cursor' = [row |-> n]
    /\ UNCHANGED <<jar, dataFile, indexFile, pc, fz, loaded, idx, frozen, added>>

\* row_by_key on the loaded jar.
row_by_key(k, mask) ==
    /\ pc = "idle"
    /\ loaded.exists
    /\ \E ix \in GetIndexResults(loaded.jar.phf, k) :
         LET r == RowByKey(loaded.jar, dataFile.bytes, k, ix, mask, loaded.jar.columns)
         IN  /\ result' = Res("row_by_key", KeyNum(k), r.kind, r.n, mask, r.row)
             /\ cursor' = [row |-> IF r.kind = "Some" THEN r.n ELSE cursor.row]
    /\ UNCHANGED <<jar, dataFile, indexFile, pc, fz, loaded, idx, frozen, added>>

\* next_row on the loaded jar: row_by_number(current, full mask), then
\* current += 1; None past the last row.
next_row ==
    /\ pc = "idle"
    /\ loaded.exists
    /\ LET c == loaded.jar.columns
           r == RowByNumber(loaded.jar, dataFile.bytes, cursor.row, FullMask(c), c)
       IN  IF r.kind = "OutOfRange"
           THEN /\ result' = Res("next_row", cursor.row, "None", cursor.row, 0, <<>>)
                /\ UNCHANGED cursor
           ELSE /\ result' = Res("next_row", cursor.row, r.kind, cursor.row, FullMask(c), r.row)
                /\ cursor' = [cursor EXCEPT !.row = @ + 1]
    /\ UNCHANGED <<jar, dataFile, indexFile, pc, fz, loaded, idx, frozen, added>>

\* ------------------------------------------------------------ specification

\* The keys of the first n rows of the data set: row i has key <<i>>.
RowKeys(n) == [i \in 1..n |-> <<i>>]

Next ==
    \/ \E d \in BOOLEAN : with_zstd(d)
    \/ with_cuckoo_filter(MaxCap)
    \/ with_mphf
    \/ \E g \in {jar.columns, jar.columns + 1} : prepare_compression(g, 0)
    \/ \E f \in BOOLEAN : prepare_index(RowKeys(MaxRows), MaxRows, f)
    \/ \E g \in {jar.columns, jar.columns + 1}, n \in 0..MaxRows : freeze(g, n)
    \/ \E it \in Items(fz.row_number) : freeze_step(it)
    \/ load
    \/ drop
    \/ \E v \in ForeignVersions : foreign_file(v)
    \/ \E n \in 0..MaxRows : row_by_number(n, FullMask(loaded.jar.columns))
    \/ next_row

Spec == Init /\ [][Next]_vars

\* A call of freeze runs to its return: it is a sequential loop, and the
\* thread that entered it keeps taking its turns.
FreezeLoop == \E it \in Items(fz.row_number) : freeze_step(it)

SpecLive == Spec /\ WF_vars(FreezeLoop)

\* A second specification, for the key path: every sequence of distinct
\* keys, both functions, filters of every capacity and row_by_key, over one
\* data set: the value of row r, column c is <<16 * r + c>>, and its
\* iterators never fail.
KeySeqs == UNION {InjSeqs(Keys, n) : n \in 1..MaxRows}

RowData(row_number, column_number) == Ok(<<16 * row_number + column_number>>)

NextKeys ==
    \/ \E m \in 1..MaxCap : with_cuckoo_filter(m)
    \/ with_mphf
    \/ with_gomphf
    \/ \E ks \in KeySeqs, n \in 1..MaxRows : prepare_index(ks, n, FALSE)
    \/ \E n \in 1..MaxRows : freeze(jar.columns, n)
    \/ freeze_step(RowData(fz.row_number, fz.column_number))
    \/ load
    \/ \E k \in Keys : row_by_key(k, FullMask(loaded.jar.columns))
    \/ \E n \in 0..(MaxRows - 1) : row_by_number(n, FullMask(loaded.jar.columns))

SpecKeys == Init /\ [][NextKeys]_vars

\* A third specification, for the filter's and the function's own methods
\* on a jar that is being prepared, and on the jar loaded from what it
\* froze.  The key vectors are the sets of keys in ascending order.
SortedKeySeqs ==
    {ks \in KeySeqs : /\ ks # <<>>
                      /\ \A i \in 1..(Len(ks) - 1) : KeyNum(ks[i]) < KeyNum(ks[i + 1])}

NextTraits ==
    \/ \E m \in 1..MaxCap : with_cuckoo_filter(m)
    \/ with_mphf
    \/ with_gomphf
    \/ \E ks \in SortedKeySeqs : prepare_index(ks, Len(ks), FALSE)
    \/ \E k \in Keys : add(k)
    \/ \E k \in Keys : contains(k)
    \/ \E ks \in SortedKeySeqs : set_keys(ks)
    \/ \E k \in Keys : get_index(k)
    \/ \E g \in {jar.columns, jar.columns + 1}, n \in 1..MaxRows : freeze(g, n)
    \/ freeze_step(RowData(fz.row_number, fz.column_number))
    \/ load
    \/ \E k \in Keys : loaded_contains(k)
    \/ \E k \in Keys : loaded_get_index(k)

SpecTraits == Init /\ [][NextTraits]_vars

\* A fourth specification, for the column masks: the data set of SpecKeys
\* with one key per row, read back by number and by key under every mask.
Masks(total_cols) == 0..FullMask(total_cols)

NextMasks ==
    \/ \E d \in BOOLEAN : with_zstd(d)
    \/ with_cuckoo_filter(MaxCap)
    \/ with_mphf
    \/ prepare_compression(jar.columns, 0)
    \/ prepare_index(RowKeys(MaxRows), MaxRows, FALSE)
    \/ \E n \in 1..MaxRows : freeze(jar.columns, n)
    \/ freeze_step(RowData(fz.row_number, fz.column_number))
    \/ load
    \/ \E n \in 0..MaxRows, m \in Masks(loaded.jar.columns) : row_by_number(n, m)
    \/ \E k \in Keys, m \in Masks(loaded.jar.columns) : row_by_key(k, m)

SpecMasks == Init /\ [][NextMasks]_vars

\* ------------------------------------------------------------------ claims

\* The errors of freeze's preconditions.
PreconditionErrors == {"ColumnLenMismatch", "CompressorNotReady", "PHFMissingKeys"}

\* The last call was freeze, and it has returned `kind`.
FreezeReturned(kind) == pc = "idle" /\ result.op = "freeze" /\ result.kind = kind

\* The last call was freeze and it got past its preconditions: fz describes
\* this call.
FreezeEntered == result.op = "freeze" /\ result.kind \notin PreconditionErrors

CompressorPending(j) == j.compressor.kind # "none" /\ ~j.compressor.ready
PhfUntrained(j) == j.phf.kind # "none" /\ ~j.phf.trained

\* Row i (from 0) of the matrix the last freeze pulled from its iterators.
OrigRow(i) == [c \in 1..jar.columns |-> fz.pulled[i * jar.columns + c].v]

AllPulledOk == \A i \in 1..Len(fz.pulled) : fz.pulled[i].t = "ok"

\* C1: round trip.  In a jar loaded from the pair a successful
\* freeze(columns, R) wrote, row_by_number(i) is row i of the matrix freeze
\* pulled, for every i < R, whatever the compressor, filter and function of
\* the jar; next_row called at position p returns row p and moves to p + 1
\* while p < R, and returns None at R; the cursor starts at row 0.
C1_RoundTrip ==
    loaded.exists =>
        LET c == jar.columns
            bytes == dataFile.bytes
        IN  /\ \A i \in 0..(fz.total_rows - 1) :
                 RowByNumber(loaded.jar, bytes, i, FullMask(c), c)
                     = [kind |-> "Some", row |-> OrigRow(i)]
            /\ result.op = "load" => cursor.row = 0
            /\ result.op = "next_row" =>
                 IF result.a < fz.total_rows
                 THEN /\ result.kind = "Some"
                      /\ result.row = OrigRow(result.a)
                      /\ cursor.row = result.a + 1
                 ELSE /\ result.kind = "None"
                      /\ cursor.row = result.a

\* C1 witness: a two-column jar with dictionary compression, filter and
\* function, two rows holding an empty and a non-empty value, read to the
\* end with next_row.
C1_Witness ==
    /\ loaded.exists /\ frozen
    /\ jar.columns = 2 /\ fz.total_rows = 2
    /\ jar.compressor.use_dict /\ jar.filter.present /\ jar.phf.kind # "none"
    /\ OrigRow(0) = <<<<>>, <<7>>>> /\ OrigRow(1) = <<<<7>>, <<>>>>
    /\ result.op = "next_row" /\ result.kind = "None" /\ cursor.row = 2

\* The last freeze wrote a jar with filter and function whose index
\* prepare_index(keys, R) had built from R distinct keys, and the pair is
\* loaded.
KeyedPair ==
    /\ loaded.exists /\ frozen
    /\ jar.filter.present /\ jar.phf.kind # "none"
    /\ fz.keyed /\ Len(fz.keys) = fz.total_rows

\* C2: key/number agreement.  In such a pair, for every row i < R,
\* row_by_key(k_i) is Some(row_by_number(i)), whatever get_index answers and
\* whatever was queried before; a row_by_key(k_i) that has returned found
\* row i.
C2_KeyNumberAgreement ==
    KeyedPair =>
        LET c == loaded.jar.columns
            bytes == dataFile.bytes
        IN  /\ \A i \in 0..(fz.total_rows - 1) :
                 \A ix \in GetIndexResults(loaded.jar.phf, fz.keys[i + 1]) :
                     LET byKey == RowByKey(loaded.jar, bytes, fz.keys[i + 1], ix,
                                           FullMask(c), c)
                         byNumber == RowByNumber(loaded.jar, bytes, i, FullMask(c), c)
                     IN  /\ byNumber.kind = "Some"
                         /\ byKey = [kind |-> "Some", row |-> byNumber.row, n |-> i]
            /\ result.op = "row_by_key" =>
                 \A i \in 0..(fz.total_rows - 1) :
                     result.arg = KeyNum(fz.keys[i + 1]) =>
                         /\ result.kind = "Some"
                         /\ result.a = i
                         /\ result.row = OrigRow(i)

\* C2 witness: two rows whose keys are not in key order, and the key of the
\* second row has just been looked up after a query of another row.
C2_Witness ==
    /\ KeyedPair
    /\ fz.total_rows = 2 /\ jar.columns = 2
    /\ KeyNum(fz.keys[1]) > KeyNum(fz.keys[2])
    /\ result.op = "row_by_key" /\ result.arg = KeyNum(fz.keys[2])
    /\ result.kind = "Some" /\ result.a = 1
    /\ result.row = <<<<16>>, <<17>>>>

\* C3: freeze reports the first precondition that fails, in the order
\* column count, compressor, function.
C3_CheckOrder ==
    (result.op = "freeze") =>
        IF result.arg # jar.columns
        THEN result.kind = "ColumnLenMismatch" /\ result.a = jar.columns
                 /\ result.b = result.arg
        ELSE IF CompressorPending(jar) THEN result.kind = "CompressorNotReady"
        ELSE IF PhfUntrained(jar) THEN result.kind = "PHFMissingKeys"
        ELSE result.kind \notin PreconditionErrors

\* C3 witness: all three preconditions fail at once, and the column count
\* is the one reported.
C3_Witness ==
    /\ FreezeReturned("ColumnLenMismatch")
    /\ result.arg # jar.columns
    /\ CompressorPending(jar)
    /\ PhfUntrained(jar)

\* C4: a freeze that fails a precondition leaves both files as they were.
C4_NoFileOnPreconditionError ==
    [][(result'.op = "freeze" /\ result'.kind \in PreconditionErrors)
          => (dataFile' = dataFile /\ indexFile' = indexFile)]_vars

\* C4 witness: a precondition failed while a data file written by an
\* earlier freeze was there, and the file still holds its bytes.
C4_Witness ==
    /\ result.op = "freeze" /\ result.kind \in PreconditionErrors
    /\ dataFile.exists
    /\ Len(dataFile.bytes) > fz.head

\* One of filter and function is configured without the other.
Degenerate(j) == j.filter.present # (j.phf.kind # "none")

\* C5 as stated: a jar with a filter and no function, or a function and no
\* filter, never gets its file pair.
C5_DegenerateRejected == Degenerate(jar) => ~indexFile.exists

\* C5 amended: a jar with only one of filter and function is treated by
\* freeze like any other: a precondition error is returned exactly when the
\* column count is wrong, the compressor is not ready or the function is
\* untrained; otherwise the data file is created, and a freeze that returns
\* Ok has written the pair.
C5_DegenerateAccepted ==
    (Degenerate(jar) /\ result.op = "freeze") =>
        /\ result.kind \in PreconditionErrors
             <=> (\/ result.arg # jar.columns
                  \/ CompressorPending(jar)
                  \/ PhfUntrained(jar))
        /\ result.kind \notin PreconditionErrors => dataFile.exists
        /\ (pc = "idle" /\ result.kind \notin PreconditionErrors /\ AllPulledOk)
             => (result.kind = "Ok" /\ indexFile.exists /\ frozen)

\* C5 witness: a jar with a filter and no function has been frozen.
C5_Witness ==
    /\ jar.filter.present /\ jar.phf.kind = "none"
    /\ FreezeReturned("Ok")
    /\ dataFile.exists /\ indexFile.exists

\* C6 as stated: a loaded jar always has the implemented version.
C6_VersionRefused == loaded.exists => loaded.jar.version = NIPPY_JAR_VERSION

\* C7: after a successful freeze(columns, R) the offsets of the index file,
\* decoded, are R*C non-decreasing positions, two consecutive ones equal only
\* if nothing was written for the earlier value; load decodes the same.
C7_OffsetsMonotone ==
    frozen =>
        LET offs == EFDecode(indexFile.offsets)
        IN  /\ Len(offs) = fz.total_rows * jar.columns
            /\ \A i \in 1..(Len(offs) - 1) :
                 /\ offs[i] <= offs[i + 1]
                 /\ offs[i] = offs[i + 1] => fz.written[i] = <<>>
            /\ EFDecode(jar.offsets) = offs
            /\ loaded.exists => EFDecode(loaded.jar.offsets) = offs

\* C7 witness: a loaded pair of four offsets, two of them equal and two
\* apart.
C7_Witness ==
    /\ frozen /\ loaded.exists
    /\ EFLen(indexFile.offsets) = 4
    /\ EFSelect(indexFile.offsets, 0) = EFSelect(indexFile.offsets, 1)
    /\ EFSelect(indexFile.offsets, 1) < EFSelect(indexFile.offsets, 2)

\* C8 as stated: a successful freeze pulled and wrote total_rows * C values,
\* and a freeze of no rows that is past its preconditions pulls nothing,
\* records and writes nothing and returns Ok.
C8_ExactlyTotalRows ==
    /\ FreezeReturned("Ok") =>
         /\ Len(fz.pulled) = fz.total_rows * jar.columns
         /\ Len(fz.written) = fz.total_rows * jar.columns
    /\ (FreezeEntered /\ fz.total_rows = 0) =>
         /\ fz.pulled = <<>> /\ fz.offsets = <<>> /\ fz.written = <<>>
         /\ pc = "idle" => result.kind = "Ok"

\* C9: when freeze returns UnexpectedMissingValue(i, j), the pull of row i,
\* column j is the first one that yielded no value, it is the last pull made
\* and only the values before it were written; when freeze returns the
\* iterator's error, the failed pull is the last one; the loop goes on only
\* while every pull yielded a value.
C9_MissingValue ==
    LET n == Len(fz.pulled)
        earlierOk == \A i \in 1..(n - 1) : fz.pulled[i].t = "ok"
        onlyEarlierWritten ==
            /\ Len(fz.written) = n - 1
            /\ dataFile.bytes = SubSeq(dataFile.bytes, 1, fz.head) \o Concat(fz.written)
    IN  /\ FreezeReturned("UnexpectedMissingValue") =>
             /\ n = result.a * jar.columns + result.b + 1
             /\ result.b < jar.columns
             /\ fz.pulled[n].t = "none"
             /\ earlierOk /\ onlyEarlierWritten
        /\ FreezeReturned("Custom") =>
             /\ fz.pulled[n].t = "err"
             /\ earlierOk /\ onlyEarlierWritten
        /\ pc = "freeze" => AllPulledOk

\* C9 witness: the second column's iterator ends at the second row of a
\* two-row freeze.
C9_Witness ==
    /\ FreezeReturned("UnexpectedMissingValue")
    /\ result.a = 1 /\ result.b = 1
    /\ fz.total_rows = 2 /\ jar.columns = 2

\* C10: freeze, given C column iterators, returns CompressorNotReady on a
\* dictionary jar that no prepare_compression has made ready, and returns it
\* in no other case (never for no compressor or a plain zstd codec); on a
\* prepared dictionary jar, given C iterators that yield every value (and a
\* trained function if one is configured), freeze returns Ok.
C10_CompressorReadiness ==
    (result.op = "freeze") =>
        /\ result.kind = "CompressorNotReady"
             <=> (/\ result.arg = jar.columns
                  /\ jar.compressor.kind = "zstd"
                  /\ jar.compressor.use_dict
                  /\ ~jar.compressor.ready)
        /\ (jar.compressor.kind = "zstd" /\ ~jar.compressor.use_dict)
             => jar.compressor.ready
        /\ (/\ pc = "idle"
            /\ jar.compressor.use_dict /\ jar.compressor.ready
            /\ result.arg = jar.columns
            /\ ~PhfUntrained(jar)
            /\ AllPulledOk)
             => result.kind = "Ok"

\* C10 witness: a dictionary jar, prepared with a dictionary per column, has
\* been frozen.
C10_Witness ==
    /\ jar.compressor.use_dict /\ jar.compressor.ready
    /\ Len(jar.compressor.dicts) = jar.columns
    /\ FreezeReturned("Ok") /\ frozen
    /\ fz.total_rows = 2

C12_LoadEqualsWriter ==
    (loaded.exists /\ frozen) =>
        /\ loaded.jar = jar
        /\ loaded.jar.user_header \in Headers
        /\ loaded.jar.path = JarPath

\* C12 witness: a loaded jar with trained dictionaries, a filled filter, a
\* trained function and a key->row map.
C12_Witness ==
    /\ loaded.exists /\ frozen
    /\ loaded.jar.compressor.use_dict /\ Len(loaded.jar.compressor.dicts) = 2
    /\ loaded.jar.filter.present /\ loaded.jar.filter.elems # {}
    /\ loaded.jar.phf.trained
    /\ EFLen(loaded.jar.offsets_index) > 0
    /\ EFLen(loaded.jar.offsets) = 4
    /\ loaded.jar.user_header = 500

\* `r` holds exactly the entries of `full` whose column has its bit set in
\* `mask`, in ascending column order.
IsProjection(r, full, mask) ==
    LET kept == {c \in 0..(Len(full) - 1) : (mask \div (2 ^ c)) % 2 = 1}
    IN  /\ Len(r) = Cardinality(kept)
        /\ \A c \in kept : r[Cardinality({d \in kept : d < c}) + 1] = full[c + 1]

\* C13: projection.  In a loaded pair, for every row i and every mask over
\* the C columns, row_by_number(i, mask) is Some of exactly the columns of
\* row i whose bit is set, in ascending column order (the empty row for the
\* empty mask); in a pair with filter, function and one key per row,
\* row_by_key(k_i, mask) is the same; and a call that has returned did so.
C13_Projection ==
    (loaded.exists /\ frozen) =>
        LET c == loaded.jar.columns
            bytes == dataFile.bytes
        IN  /\ \A i \in 0..(fz.total_rows - 1), m \in Masks(c) :
                 LET byNumber == RowByNumber(loaded.jar, bytes, i, m, c)
                 IN  /\ byNumber.kind = "Some"
                     /\ IsProjection(byNumber.row, OrigRow(i), m)
                     /\ m = 0 => byNumber.row = <<>>
                     /\ KeyedPair =>
                          \A ix \in GetIndexResults(loaded.jar.phf, fz.keys[i + 1]) :
                              RowByKey(loaded.jar, bytes, fz.keys[i + 1], ix, m, c)
                                  = [kind |-> "Some", row |-> byNumber.row, n |-> i]
            /\ (result.op = "row_by_number" /\ result.a < fz.total_rows) =>
                 /\ result.kind = "Some"
                 /\ IsProjection(result.row, OrigRow(result.a), result.b)
            /\ (result.op = "row_by_key" /\ result.kind = "Some" /\ KeyedPair) =>
                 \/ IsProjection(result.row, OrigRow(result.a), result.b)
                 \/ \A i \in 1..Len(fz.keys) : KeyNum(fz.keys[i]) # result.arg

\* C13 witness: the second row of a two-column pair has been read by key
\* with mask 0b10, which keeps its second column only.
C13_Witness ==
    /\ KeyedPair
    /\ jar.columns = 2 /\ fz.total_rows = 2
    /\ result.op = "row_by_key" /\ result.arg = KeyNum(fz.keys[2])
    /\ result.b = 2
    /\ result.kind = "Some" /\ result.row = <<<<17>>>>

\* C14: on a jar with a filter of capacity M, an add is accepted while fewer
\* than M elements were accepted before it, and the key is then a member;
\* from then on every add returns FilterMaxCapacity and leaves the jar as it
\* was; no add takes a member out.
C14_FilterCapacity ==
    [][(result'.op = "add" /\ jar.filter.present) =>
          /\ IF added.n < added.cap
             THEN /\ result'.kind = "Ok"
                  /\ added'.n = added.n + 1
                  /\ FilterContains(jar'.filter, <<result'.arg>>)
             ELSE /\ result'.kind = "FilterMaxCapacity"
                  /\ jar' = jar
                  /\ added' = added
          /\ \A k \in Keys :
                FilterContains(jar.filter, k) => FilterContains(jar'.filter, k)]_vars

\* C14 witness: an add was refused by a filter that had accepted as many
\* elements as its capacity, and these are still members.
C14_Witness ==
    /\ result.op = "add" /\ result.kind = "FilterMaxCapacity"
    /\ added.cap = MaxCap /\ added.n = MaxCap
    /\ Cardinality(added.keys) = MaxCap
    /\ \A k \in added.keys : FilterContains(jar.filter, k)
    /\ ~FilterContains(jar.filter, <<result.arg>>)

\* C15: filter soundness.  Every key whose add was accepted (by the trait
\* method or by prepare_index) is a member of the writer's filter in every
\* later state, and of the filter of the jar loaded from the pair a later
\* freeze wrote; contains called with such a key, on either jar, returns
\* Ok(true).
C15_FilterSoundness ==
    /\ \A k \in added.keys :
          /\ jar.filter.present /\ FilterContains(jar.filter, k)
          /\ (loaded.exists /\ frozen) =>
                (loaded.jar.filter.present /\ FilterContains(loaded.jar.filter, k))
    /\ (result.op = "contains" /\ <<result.arg>> \in added.keys) =>
          (result.kind = "Ok" /\ result.a = 1)
    /\ (result.op = "loaded_contains" /\ frozen /\ <<result.arg>> \in added.keys) =>
          (result.kind = "Ok" /\ result.a = 1)

\* C15 witness: contains on a loaded jar has answered true for a key added
\* before the freeze, with as many keys added as the filter holds.
C15_Witness ==
    /\ loaded.exists /\ frozen
    /\ result.op = "loaded_contains" /\ result.kind = "Ok" /\ result.a = 1
    /\ <<result.arg>> \in added.keys
    /\ Cardinality(added.keys) = MaxCap

\* C16: missing feature.  add and contains return FilterMissing exactly on a
\* jar without a filter, set_keys and get_index return PHFMissing exactly on
\* a jar without a function, on the writer's jar and on a loaded one; a call
\* that returned one of the two errors left the jar as it was.
C16_MissingFeature ==
    [][/\ result'.op \in {"add", "contains"} =>
            /\ result'.kind = "FilterMissing" <=> ~jar.filter.present
            /\ result'.kind = "FilterMissing" => jar' = jar
       /\ result'.op \in {"set_keys", "get_index"} =>
            /\ result'.kind = "PHFMissing" <=> jar.phf.kind = "none"
            /\ result'.kind = "PHFMissing" => jar' = jar
       /\ result'.op = "loaded_contains" =>
            /\ result'.kind = "FilterMissing" <=> ~loaded.jar.filter.present
            /\ loaded' = loaded
       /\ result'.op = "loaded_get_index" =>
            /\ result'.kind = "PHFMissing" <=> loaded.jar.phf.kind = "none"
            /\ loaded' = loaded]_vars

\* C16 witness: set_keys returned PHFMissing on a jar that has a filter,
\* with elements in it, and no function.
C16_Witness ==
    /\ result.op = "set_keys" /\ result.kind = "PHFMissing"
    /\ jar.phf.kind = "none"
    /\ jar.filter.present /\ jar.filter.elems # {}

\* The values get_index may return for `k` on function `phf`.
IndexValues(phf, k) == {r.a : r \in {q \in GetIndexResults(phf, k) : q.kind = "Some"}}

\* C17: function uniqueness.  Once the function of a jar is trained on R
\* distinct keys, get_index returns Some(v) for every trained key, one value
\* per key, in 0..R-1, and no two trained keys have the same value; a
\* get_index call on a trained key has returned such a value.
C17_PhfUniqueness ==
    jar.phf.trained =>
        LET keys == jar.phf.keys
            R == Cardinality(keys)
        IN  /\ \A k \in keys :
                 /\ \A r \in GetIndexResults(jar.phf, k) : r.kind = "Some"
                 /\ Cardinality(IndexValues(jar.phf, k)) = 1
                 /\ IndexValues(jar.phf, k) \subseteq 0..(R - 1)
            /\ \A k1, k2 \in keys :
                 k1 # k2 => IndexValues(jar.phf, k1) \cap IndexValues(jar.phf, k2) = {}
            /\ (result.op = "get_index" /\ <<result.arg>> \in keys) =>
                 (result.kind = "Some" /\ result.a \in IndexValues(jar.phf, <<result.arg>>))

\* C17 witness: get_index returned the last index for a key of a function
\* trained by set_keys on as many keys as there are rows.
C17_Witness ==
    /\ result.op = "get_index" /\ result.kind = "Some"
    /\ jar.phf.trained /\ ~idx.valid
    /\ Cardinality(jar.phf.keys) = MaxRows
    /\ <<result.arg>> \in jar.phf.keys
    /\ result.a = MaxRows - 1

\* What get_index returns for every key on function `phf`.
IndexOutputs(phf) == [k \in Keys |-> GetIndexResults(phf, k)]

PrepareRefused ==
    /\ result.op = "prepare_compression" /\ result.kind = "ColumnLenMismatch"
    /\ ~is_ready(jar.compressor)

\* C19: prepare_compression.  On a jar without a compressor it returns Ok
\* and leaves the jar as it was.  On a jar with a dictionary compressor,
\* called with a number of columns other than the jar's, it returns
\* ColumnLenMismatch(jar's columns, number given) and leaves the jar as it
\* was; a compressor that was not ready is still not ready, and the freeze
\* that follows, given the jar's number of columns, returns
\* CompressorNotReady without entering its loop.
C19_PrepareCompression ==
    [][/\ (result'.op = "prepare_compression" /\ jar.compressor.kind = "none") =>
            (result'.kind = "Ok" /\ jar' = jar)
       /\ (/\ result'.op = "prepare_compression"
           /\ jar.compressor.kind = "zstd" /\ jar.compressor.use_dict
           /\ result'.arg # jar.columns) =>
            /\ result'.kind = "ColumnLenMismatch"
            /\ result'.a = jar.columns /\ result'.b = result'.arg
            /\ jar' = jar
       /\ PrepareRefused =>
            /\ pc' = "idle"
            /\ (result'.op = "freeze" /\ result'.arg = jar.columns) =>
                  result'.kind = "CompressorNotReady"]_vars

\* C19 witness: prepare_compression was given three columns on a jar of two
\* with a dictionary compressor, returned ColumnLenMismatch(2, 3), and the
\* compressor is not ready.
C19_Witness ==
    /\ PrepareRefused
    /\ jar.columns = 2 /\ jar.compressor.use_dict
    /\ result.a = 2 /\ result.b = 3

\* The number of bytes freeze wrote for the first n values it pulled.
BytesBefore(n) == SumSeq([q \in 1..n |-> Len(fz.written[q])])

\* C20: offsets are recorded before each write, in row-major order.  After a
\* successful freeze, the offset stored for the value of row i and column j
\* (entry i*C + j, from 0) is the length of the configuration at the head of
\* the data file plus the number of bytes written for all the values before
\* it, row by row and column by column within a row; entry 0 is the length
\* of the configuration; and the bytes found at that offset are those
\* written for that value.
C20_OffsetsBeforeWrite ==
    frozen =>
        LET offs == EFDecode(indexFile.offsets)
            c == jar.columns
            config == Serialize(jar)
        IN  /\ Len(offs) = Len(fz.written)
            /\ Len(offs) >= 1 /\ offs[1] = Len(config)
            /\ SubSeq(dataFile.bytes, 1, Len(config)) = config
            /\ \A i \in 0..((Len(offs) \div c) - 1) : \A j \in 0..(c - 1) :
                 LET p == i * c + j + 1
                 IN  /\ offs[p] = Len(config) + BytesBefore(p - 1)
                     /\ fz.written[p] = WrittenFor(jar, j, OrigRow(i)[j + 1])
                     /\ SubSeq(dataFile.bytes, offs[p] + 1, offs[p] + Len(fz.written[p]))
                          = fz.written[p]

\* C20 witness: a successful freeze of two rows of two columns in which
\* something was written for a value before the last one, so that the
\* offsets are not all the length of the configuration.
C20_Witness ==
    /\ frozen /\ jar.columns = 2
    /\ EFLen(indexFile.offsets) = 4
    /\ EFSelect(indexFile.offsets, 0) = Len(Serialize(jar))
    /\ fz.written[2] # <<>>
    /\ EFSelect(indexFile.offsets, 3) > EFSelect(indexFile.offsets, 2)
    /\ EFSelect(indexFile.offsets, 2) > EFSelect(indexFile.offsets, 1)

\* The key->row map of jar `j`, decoded.
KeyRowMap(j) == PSDecode(j.offsets_index)

\* C21: key->row map.  After a successful prepare_index(keys, R) with R
\* distinct keys on a jar with a function, the key->row map of the jar has
\* length R, holds i at the index get_index returns for the key of row i,
\* for every row i, and holds every row number of 0..R-1 exactly once.
C21_KeyRowMap ==
    (idx.valid /\ jar.phf.kind # "none") =>
        LET map == KeyRowMap(jar)
            R == Len(idx.keys)
        IN  /\ Len(map) = R
            /\ \A i \in 0..(R - 1) :
                 \A r \in GetIndexResults(jar.phf, idx.keys[i + 1]) :
                    /\ r.kind = "Some" /\ r.a < R
                    /\ map[r.a + 1] = i
            /\ {map[p] : p \in 1..R} = 0..(R - 1)
            /\ \A p, q \in 1..R : map[p] = map[q] => p = q

\* C21 witness: prepare_index has returned Ok on a jar with a function and
\* as many keys as there are rows, and the map it built is not the identity.
C21_Witness ==
    /\ result.op = "prepare_index" /\ result.kind = "Ok"
    /\ idx.valid /\ jar.phf.kind # "none"
    /\ Len(idx.keys) = MaxRows
    /\ \E p \in 1..MaxRows : KeyRowMap(jar)[p] # p - 1

\* C22 as stated: on a jar without a function, the key->row map in the
\* index file is empty, whatever prepare_index and freeze calls were made.
C22_EmptyWithoutPhf ==
    (indexFile.exists /\ jar.phf.kind = "none") =>
        EFLen(indexFile.offsets_index) = 0

C24_CollectBeforeActing ==
    [][(result'.op = "prepare_index" /\ result'.kind = "Custom") =>
          /\ jar'.phf = jar.phf
          /\ jar'.filter = jar.filter
          /\ jar'.offsets_index = jar.offsets_index
          /\ jar' = jar
          /\ added' = added
          /\ pc' = pc]_vars

\* C24 witness: prepare_index returned the error of a key item on a jar
\* whose function and filter an earlier prepare_index had trained and fed,
\* and they are as that call left them.
C24_Witness ==
    /\ result.op = "prepare_index" /\ result.kind = "Custom"
    /\ idx.valid /\ jar.phf.trained /\ Cardinality(jar.phf.keys) = MaxRows
    /\ jar.filter.present /\ added.n = MaxRows
    /\ KeyRowMap(jar) # <<>>

\* The errors freeze returns from inside its write loop.
LoopErrors == {"UnexpectedMissingValue", "Custom"}

FreezeDone == pc = "idle" /\ result.op = "freeze" /\ result.kind # "Running"

\* C26: freeze terminates.  Whatever the number of columns and total_rows
\* (0 included), with column iterators that end, a freeze that has entered
\* its write loop returns, with Ok or with an error.
C26_FreezeTerminates == (pc = "freeze") ~> FreezeDone

\* C26 witness: a freeze called with total_rows = 0 has returned, after
\* pulling from its iterators until one of them ended.
C26_Witness ==
    /\ FreezeDone
    /\ fz.total_rows = 0
    /\ Len(fz.pulled) > MaxLen
    /\ result.kind = "UnexpectedMissingValue"

====
